---- MODULE Spec2Model ----
(***************************************************************************)
(* The Whisper model container of src/whisper/model.py: the text decoder   *)
(* with its hook-based key/value cache, and the shape gate of the audio    *)
(* encoder.                                                                *)
(*                                                                         *)
(* A tensor is modelled along its sequence axis only: it is a sequence of  *)
(* rows, and a row is a symbolic term that records what it was computed    *)
(* from (token, position, the key/value rows it attended to).  Row-wise    *)
(* maps (LayerNorm, the MLP, the query/out projections, the logits         *)
(* product) are absorbed into the terms.  Shapes follow torch's            *)
(* broadcasting rules, so a shape error is a computed outcome.             *)
(***************************************************************************)
EXTENDS Integers, Sequences, FiniteSets, TLC

\* ---------------------------------------------------------------- bounds
MaxCalls == 3      \* decoder calls explored in one behaviour
MaxCallsTwo == 2   \* decoder calls explored with two sessions
MaxTok == 2        \* tokens passed to one decoder call
MaxMel == 26       \* longest mel spectrogram (frames) fed to the encoder
MaxAudioCtx == 12  \* largest dims.n_audio_ctx the encoder is configured with

\* ------------------------------------------------- ModelDimensions (dims)
TextCtxs == {2, 3}     \* dims.n_text_ctx
AudioCtx == 3          \* dims.n_audio_ctx
TextLayers == 2        \* dims.n_text_layer, single-session model
AudioLayers == 2       \* dims.n_audio_layer

Sessions == {1, 2}     \* calls of install_kv_cache_hooks, by identity
NoCache == 0           \* kv_cache=None
Tokens == {1, 2}       \* token ids

VARIABLES
    dims,      \* Whisper.dims
    hooks,     \* module -> its _forward_hooks, in registration order (session ids)
    cache,     \* session -> the dict `cache` closed over by save_to_cache (insertion ordered)
    handles,   \* session -> projections whose RemovableHandle it has not removed yet
    created,   \* sessions whose install_kv_cache_hooks has run
    last,      \* observation of the latest TextDecoder.forward: arguments, outcome, the
               \* projections invoked, and the caches/hooks/handles as the call found them
    enc,       \* observation of the latest AudioEncoder.forward
    hist,      \* per session: how the decoder was called since its hooks were installed
               \* (tokens passed, every call passed this cache, every call had one token,
               \* earlier sessions were torn down when it was installed)
    ncalls     \* decoder calls so far

vars == <<dims, hooks, handles, cache, created, last, enc, hist, ncalls>>

\* ------------------------------------------------------------- helpers
Min(a, b) == IF a < b THEN a ELSE b

\* key/value projection modules of the decoder: block layer, attention, projection
Mod(l, a, p) == [layer |-> l, attn |-> a, proj |-> p]
Modules(nl) == {Mod(l, a, p) : l \in 1..nl, a \in {"attn", "cross_attn"}, p \in {"key", "value"}}

\* torch broadcasting of one dimension; -1 is the RuntimeError
Broadcast(a, b) == IF a = b THEN a ELSE IF a = 1 THEN b ELSE IF b = 1 THEN a ELSE -1

\* ---- Python dict, insertion ordered: a sequence of [mod, t]
Has(c, m) == \E i \in 1..Len(c) : c[i].mod = m
Idx(c, m) == CHOOSE i \in 1..Len(c) : c[i].mod = m
Get(c, m) == c[Idx(c, m)].t
Put(c, m, t) == IF Has(c, m) THEN [c EXCEPT ![Idx(c, m)].t = t]
                ELSE Append(c, [mod |-> m, t |-> t])

\* the encoded audio features xa of the utterance being decoded
AudioFeatures(dm) == [j \in 1..dm.n_audio_ctx |-> [t |-> "xa", j |-> j]]

\* Linear.forward on each row (key or value projection m)
Linear(m, x) == [i \in 1..Len(x) |-> [t |-> "p", m |-> m, x |-> x[i]]]

\* absolute position a row was embedded at
RECURSIVE RowPos(_)
RowPos(r) == IF r.t = "e" THEN r.pos
             ELSE IF r.t = "xa" THEN r.j
             ELSE RowPos(r.x)

\* ------------------------------------------------------ the KV-cache hooks
\* variant: the hook stores every output as-is and never appends
save_to_cache_overwrite(nctx, c, m, output) == Put(c, m, output)

\* variant: the hook appends whenever the module is cached, whatever the length
save_to_cache_nolimit(nctx, c, m, output) ==
    IF ~Has(c, m) THEN Put(c, m, output) ELSE Put(c, m, Get(c, m) \o output)

\* save_to_cache(module, _, output), on the dict c it closes over; the
\* returned tensor is Get of the resulting dict
save_to_cache(nctx, c, m, output) ==
    IF ~Has(c, m) \/ Len(output) > nctx
    THEN Put(c, m, output)
    ELSE Put(c, m, Get(c, m) \o output)

\* nn.Module.__call__: the forward hooks of m run in registration order, and
\* what a hook returns replaces the output handed to the next one
RECURSIVE call_hooks(_, _, _, _, _)
call_hooks(nctx, hs, m, caches, output) ==
    IF hs = <<>> THEN [caches |-> caches, out |-> output]
    ELSE LET s == Head(hs)
             c2 == save_to_cache(nctx, caches[s], m, output)
         IN call_hooks(nctx, Tail(hs), m, [caches EXCEPT ![s] = c2], Get(c2, m))

\* the projection's result as the attention layer receives it (k or v), logged
Returned(m, st, out, r) ==
    [st EXCEPT !.caches = r.caches,
               !.k = IF m.proj = "key" THEN r.out ELSE @,
               !.v = IF m.proj = "value" THEN r.out ELSE @,
               !.proj = Append(@, [mod |-> m, output |-> out, ret |-> r.out])]

\* self.key(..) / self.value(..): Linear.forward followed by the hooks
call_module(dm, hk, m, st, input) ==
    Returned(m, st, Linear(m, input),
             call_hooks(dm.n_text_ctx, hk[m], m, st.caches, Linear(m, input)))

\* ------------------------------------------------------------- attention
\* variant: the mask buffer is all zeros
Mask_zeros(nctx) == [i \in 1..nctx |-> [j \in 1..nctx |-> "0"]]

\* TextDecoder.mask: -inf strictly above the diagonal, 0 elsewhere
Mask(nctx) == [i \in 1..nctx |-> [j \in 1..nctx |-> IF j > i THEN "-inf" ELSE "0"]]

\* MultiHeadAttention.qkv_attention along the sequence axes: q has n rows, k has
\* kl, v has vl; qk is n x kl, the mask slice mask[:n, :n] is mn x mn.  Row i of
\* the result lists the (key, value) rows that get a non-zero softmax weight.
qkv_attention(nctx, q, k, v, masked) ==
    LET n == Len(q)
        kl == Len(k)
        vl == Len(v)
        mn == Min(n, nctx)
        r == IF masked THEN Broadcast(n, mn) ELSE n
        c == IF masked THEN Broadcast(kl, mn) ELSE kl
        ok == r # -1 /\ c # -1 /\ c = vl
        minf(i, j) == masked /\ Mask(nctx)[IF mn = 1 THEN 1 ELSE i][IF mn = 1 THEN 1 ELSE j] = "-inf"
        cols == [j \in 1..c |-> j]
        row(i) == LET vis == SelectSeq(cols, LAMBDA j : ~minf(i, j))
                  IN [j \in 1..Len(vis) |->
                         [k |-> k[IF kl = 1 THEN 1 ELSE vis[j]], v |-> v[vis[j]]]]
    IN IF ~ok THEN [ok |-> FALSE, out |-> <<>>, w |-> {}]
       ELSE LET out == [i \in 1..r |-> row(i)]
            IN [ok |-> TRUE,
                out |-> out,
                w |-> UNION {{<<RowPos(q[IF n = 1 THEN 1 ELSE i]), RowPos(out[i][j].k)>> :
                                 j \in 1..Len(out[i])} : i \in 1..r}]

\* wv, qk = self.qkv_attention(q, k, v, mask), on the k and v held in st
Attended(a, st, att) ==
    IF ~att.ok THEN [st EXCEPT !.err = "shape"]
    ELSE [st EXCEPT !.ret = att.out,
                    !.selfw = IF a = "attn" THEN @ \cup att.w ELSE @]

Attend(dm, a, st) ==
    IF st.err # "" THEN st
    ELSE Attended(a, st, qkv_attention(dm.n_text_ctx, st.x, st.k, st.v, a = "attn"))

\* k = self.key(src); v = self.value(src)
Project(dm, hk, l, a, st, src) ==
    call_module(dm, hk, Mod(l, a, "value"),
                call_module(dm, hk, Mod(l, a, "key"), st, src), src)

\* k = kv_cache[self.key]; v = kv_cache[self.value]
Reuse(c, l, a, st) ==
    IF ~Has(c, Mod(l, a, "value")) THEN [st EXCEPT !.err = "KeyError"]
    ELSE [st EXCEPT !.k = Get(c, Mod(l, a, "key")), !.v = Get(c, Mod(l, a, "value"))]

\* variant: the key/value projections are always recomputed, the cache never reused
MultiHeadAttention_forward_recompute(dm, hk, kv, l, a, st) ==
    IF st.err # "" THEN st
    ELSE Attend(dm, a, Project(dm, hk, l, a, st,
                               IF a = "attn" THEN st.x ELSE AudioFeatures(dm)))

\* MultiHeadAttention.forward of block l on x = st.x; a = "attn" is the call with
\* xa = None
MultiHeadAttention_forward(dm, hk, kv, l, a, st) ==
    IF st.err # "" THEN st
    ELSE IF kv = NoCache \/ a = "attn" \/ ~Has(st.caches[kv], Mod(l, a, "key"))
    THEN Attend(dm, a, Project(dm, hk, l, a, st,
                               IF a = "attn" THEN st.x ELSE AudioFeatures(dm)))
    ELSE Attend(dm, a, Reuse(st.caches[kv], l, a, st))

\* x = x + attention(ln(x)): each row keeps what it was and what it attended to
Residual(tag, l, st) ==
    IF st.err # "" THEN st
    ELSE [st EXCEPT !.x = [i \in 1..Len(st.x) |->
                              [t |-> tag, l |-> l, x |-> st.x[i], a |-> st.ret[i]]]]

\* ResidualAttentionBlock.forward of a decoder block (cross_attention=True)
ResidualAttentionBlock_forward(dm, hk, kv, l, st) ==
    Residual("ca", l,
        MultiHeadAttention_forward(dm, hk, kv, l, "cross_attn",
            Residual("sa", l,
                MultiHeadAttention_forward(dm, hk, kv, l, "attn", st))))

RECURSIVE blocks(_, _, _, _, _)
blocks(dm, hk, kv, l, st) ==
    IF l > dm.n_text_layer \/ st.err # "" THEN st
    ELSE blocks(dm, hk, kv, l + 1, ResidualAttentionBlock_forward(dm, hk, kv, l, st))

\* variant: the offset is read from the entry stored last
Offset_last(caches, kv) ==
    IF kv # NoCache /\ caches[kv] # <<>> THEN Len(caches[kv][Len(caches[kv])].t) ELSE 0

\* offset = next(iter(kv_cache.values())).shape[1] if kv_cache else 0
Offset(caches, kv) ==
    IF kv # NoCache /\ caches[kv] # <<>> THEN Len(caches[kv][1].t) ELSE 0

\* variant: the positional slice ignores the offset
Embed_nooffset(nctx, toks, offset) ==
    [ok |-> Len(toks) <= nctx,
     x |-> [i \in 1..Len(toks) |-> [t |-> "e", tok |-> toks[i], pos |-> i - 1]]]

\* token_embedding(x) + positional_embedding[offset : offset + x.shape[-1]]
Embed(nctx, toks, offset) ==
    LET k == Len(toks)
        lo == Min(offset, nctx)
        len == Min(offset + k, nctx) - lo
        n == Broadcast(k, len)
    IN IF n = -1 THEN [ok |-> FALSE, x |-> <<>>]
       ELSE [ok |-> TRUE,
             x |-> [i \in 1..n |-> [t |-> "e",
                                    tok |-> toks[IF k = 1 THEN 1 ELSE i],
                                    pos |-> lo + (IF len = 1 THEN 0 ELSE i - 1)]]]

\* what the call leaves behind: logits, or the exception, and the caches as the
\* hooks that ran wrote them
Outcome(offset, st) ==
    [caches |-> st.caches,
     status |-> IF st.err = "" THEN "ok" ELSE st.err,
     logits |-> IF st.err = "" THEN st.x ELSE <<>>,
     offset |-> offset, proj |-> st.proj, selfw |-> st.selfw]

Embedded(dm, hk, caches, kv, offset, e) ==
    Outcome(offset,
            IF ~e.ok
            THEN [caches |-> caches, proj |-> <<>>, err |-> "shape", selfw |-> {},
                  x |-> <<>>, ret |-> <<>>, k |-> <<>>, v |-> <<>>]
            ELSE blocks(dm, hk, kv, 1,
                        [caches |-> caches, proj |-> <<>>, err |-> "", selfw |-> {},
                         x |-> e.x, ret |-> <<>>, k |-> <<>>, v |-> <<>>]))

\* TextDecoder.forward(x = toks, xa, kv_cache = kv)
TextDecoder_forward(dm, hk, caches, kv, toks) ==
    Embedded(dm, hk, caches, kv, Offset(caches, kv),
             Embed(dm.n_text_ctx, toks, Offset(caches, kv)))

\* --------------------------------------------------------- audio encoder
\* output length of nn.Conv1d along time
Conv1dLen(len, kernel, stride, padding) == (len + 2 * padding - kernel) \div stride + 1

\* variant: the shape is compared only after the blocks and ln_post have run
AudioEncoder_forward_late(dm, T) ==
    LET l2 == Conv1dLen(Conv1dLen(T, 3, 1, 1), 3, 2, 1)
    IN [mel |-> T,
        status |-> IF l2 # dm.n_audio_ctx THEN "incorrect audio shape" ELSE "ok",
        blocks_run |-> dm.n_audio_layer, ln_post |-> TRUE,
        out_len |-> IF l2 # dm.n_audio_ctx THEN -1 ELSE l2]

\* AudioEncoder.forward on a mel of T frames
AudioEncoder_forward(dm, T) ==
    LET l1 == Conv1dLen(T, 3, 1, 1)
        l2 == Conv1dLen(l1, 3, 2, 1)
    IN IF l2 # dm.n_audio_ctx
       THEN [mel |-> T, status |-> "incorrect audio shape", blocks_run |-> 0,
             ln_post |-> FALSE, out_len |-> -1]
       ELSE [mel |-> T, status |-> "ok", blocks_run |-> dm.n_audio_layer,
             ln_post |-> TRUE, out_len |-> l2]

\* ------------------------------------------------------------- the system
NoCall == [op |-> "none", kv |-> NoCache, toks |-> <<>>, status |-> "none",
           offset |-> 0, logits |-> <<>>, proj |-> <<>>, selfw |-> {},
           before |-> [s \in Sessions |-> <<>>], hooked |-> <<>>,
           handles |-> [s \in Sessions |-> {}], created |-> {}]
NoEnc == [mel |-> 0, status |-> "none", blocks_run |-> 0, ln_post |-> FALSE, out_len |-> -1]
NoHist == [toks |-> <<>>, allkv |-> TRUE, onebyone |-> TRUE, fresh |-> TRUE]

DimsOf(nl, actxs) == {[n_text_ctx |-> c, n_text_layer |-> nl, n_audio_ctx |-> a,
                       n_audio_layer |-> AudioLayers] : c \in TextCtxs, a \in actxs}

InitWith(nl, actxs) ==
    /\ dims \in DimsOf(nl, actxs)
    /\ hooks = [m \in Modules(nl) |-> <<>>]
    /\ handles = [s \in Sessions |-> {}]
    /\ cache = [s \in Sessions |-> <<>>]
    /\ created = {}
    /\ last = NoCall
    /\ enc = NoEnc
    /\ hist = [s \in Sessions |-> NoHist]
    /\ ncalls = 0

\* cache, hooks = model.install_kv_cache_hooks()
install_kv_cache_hooks(s) ==
    /\ s \notin created
    /\ created' = created \cup {s}
    /\ cache' = [cache EXCEPT ![s] = <<>>]
    /\ hooks' = [m \in DOMAIN hooks |-> Append(hooks[m], s)]
    /\ handles' = [handles EXCEPT ![s] = DOMAIN hooks]
    /\ hist' = [hist EXCEPT ![s] = [NoHist EXCEPT !.fresh = \A o \in created : handles[o] = {}]]
    /\ UNCHANGED <<dims, last, enc, ncalls>>

\* variant: removing a handle leaves the hook registered
RemoveSeq_keep(hs, s) == hs

\* RemovableHandle.remove(): the hook of session s leaves the module's hook list
RemoveSeq(hs, s) == SelectSeq(hs, LAMBDA h : h # s)

\* hook.remove() on the handle session s holds for projection m
remove(s, m) ==
    /\ m \in handles[s]
    /\ handles' = [handles EXCEPT ![s] = @ \ {m}]
    /\ hooks' = [hooks EXCEPT ![m] = RemoveSeq(@, s)]
    /\ UNCHANGED <<dims, cache, created, last, enc, hist, ncalls>>

TokenSeqs(n) == UNION {[1..k -> Tokens] : k \in 1..n}

\* model.decoder(tokens, audio_features, kv_cache=kv)
decoder(kv, toks) ==
    /\ ncalls < MaxCalls
    /\ kv \in {NoCache} \cup created
    /\ \E r \in {TextDecoder_forward(dims, hooks, cache, kv, toks)} :
          /\ cache' = r.caches
          /\ last' = [op |-> "decoder", kv |-> kv, toks |-> toks, status |-> r.status,
                      offset |-> r.offset, logits |-> r.logits, proj |-> r.proj,
                      selfw |-> r.selfw, before |-> cache, hooked |-> hooks,
                      handles |-> handles, created |-> created]
    /\ hist' = [s \in Sessions |->
                  IF s \in created
                  THEN [toks |-> hist[s].toks \o toks,
                        allkv |-> hist[s].allkv /\ kv = s,
                        onebyone |-> hist[s].onebyone /\ Len(toks) = 1,
                        fresh |-> hist[s].fresh]
                  ELSE hist[s]]
    /\ ncalls' = ncalls + 1
    /\ UNCHANGED <<dims, hooks, handles, created, enc>>

\* model.embed_audio(mel)
embed_audio(T) ==
    /\ enc' = AudioEncoder_forward(dims, T)
    /\ UNCHANGED <<dims, hooks, handles, cache, created, last, hist, ncalls>>

Install1 == install_kv_cache_hooks(1)
Install2 == install_kv_cache_hooks(2)
Revoke == \E m \in DOMAIN hooks : remove(1, m)
Decode == \E kv \in {NoCache} \cup Sessions : \E toks \in TokenSeqs(MaxTok) : decoder(kv, toks)
DecodeOne == /\ ncalls < MaxCallsTwo
             /\ \E kv \in {NoCache} \cup Sessions : decoder(kv, <<1>>)
EmbedAudio == \E T \in 1..MaxMel : embed_audio(T)

\* one decoding session on a model of TextLayers decoder blocks
Init == InitWith(TextLayers, {AudioCtx})
Next == Install1 \/ Decode
Spec == Init /\ [][Next]_vars

\* two sessions on a one-block decoder, handles revoked one at a time
InitTwo == InitWith(1, {AudioCtx})
NextTwo == Install1 \/ Install2 \/ Revoke \/ DecodeOne
SpecTwo == InitTwo /\ [][NextTwo]_vars

\* the audio encoder, over the configured audio context lengths
InitEnc == InitWith(TextLayers, 1..MaxAudioCtx)
NextEnc == EmbedAudio
SpecEnc == InitEnc /\ [][NextEnc]_vars

\* ------------------------------------------------------------ the claims
NoHooks == [m \in DOMAIN hooks |-> <<>>]
NoCaches == [s \in Sessions |-> <<>>]
SelfKey(l) == Mod(l, "attn", "key")
SelfValue(l) == Mod(l, "attn", "value")
CrossMods == {m \in DOMAIN hooks : m.attn = "cross_attn"}
SelfMods == {m \in DOMAIN hooks : m.attn = "attn"}
\* the dict passed as kv_cache, as the latest decoder call found it
KvBefore == IF last.kv = NoCache THEN <<>> ELSE last.before[last.kv]
Invocations(m) == {i \in 1..Len(last.proj) : last.proj[i].mod = m}

C2_AllSameLength ==
    last.op = "decoder" =>
        IF KvBefore # <<>>
        THEN /\ \A i, j \in 1..Len(KvBefore) : Len(KvBefore[i].t) = Len(KvBefore[j].t)
             /\ last.offset = Len(KvBefore[1].t)
        ELSE last.offset = 0

\* C2 amended: with a non-empty cache the offset is the sequence length of the first
\* block's self-attention key, the first entry of the cache, which that block's
\* self-attention value shares and no self-attention entry exceeds; every
\* cross-attention entry has a positive multiple of n_audio_ctx rows instead.  With
\* no cache or an empty one the offset is 0.
C2_OffsetIsSelfLength ==
    last.op = "decoder" =>
        IF KvBefore # <<>>
        THEN /\ KvBefore[1].mod = SelfKey(1)
             /\ last.offset = Len(Get(KvBefore, SelfKey(1)))
             /\ Has(KvBefore, SelfValue(1))
             /\ Len(Get(KvBefore, SelfValue(1))) = last.offset
             /\ \A i \in 1..Len(KvBefore) :
                   IF KvBefore[i].mod \in CrossMods
                   THEN /\ Len(KvBefore[i].t) >= dims.n_audio_ctx
                        /\ Len(KvBefore[i].t) % dims.n_audio_ctx = 0
                   ELSE Len(KvBefore[i].t) <= last.offset
        ELSE last.offset = 0

\* C2 witness: a call starts with a cache whose cross-attention entries are longer
\* than its self-attention entries
C2_Witness ==
    /\ last.op = "decoder"
    /\ KvBefore # <<>>
    /\ \E i \in 1..Len(KvBefore) : Len(KvBefore[i].t) # last.offset

\* C3: after N <= n_text_ctx tokens decoded one per call, each call passing the
\* session's cache, the logits of the last call are the last row of the logits of
\* one call on all N tokens with no hooks and no cache: same position N-1, same
\* attended key/value rows, same audio key/values.
C3_CacheEquivalence ==
    (/\ last.op = "decoder"
     /\ last.kv = 1
     /\ hist[1].allkv
     /\ hist[1].onebyone
     /\ Len(hist[1].toks) <= dims.n_text_ctx) =>
        LET N == Len(hist[1].toks)
            full == TextDecoder_forward(dims, NoHooks, NoCaches, NoCache, hist[1].toks)
        IN /\ last.status = "ok"
           /\ full.status = "ok"
           /\ Len(full.logits) = N
           /\ last.logits = <<full.logits[N]>>
           /\ RowPos(last.logits[1]) = N - 1

\* C3 witness: the third token of a session decoded one token per call
C3_Witness ==
    /\ last.op = "decoder"
    /\ last.kv = 1
    /\ hist[1].allkv
    /\ hist[1].onebyone
    /\ Len(hist[1].toks) = 3
    /\ last.status = "ok"

\* C4: every interception stores the new output as-is when the projection is absent
\* from the store or the output is longer than n_text_ctx, and otherwise stores the
\* previous entry with the output appended; the projection returns the stored entry.
C4_HookPolicy ==
    last.op = "decoder" =>
        \A i \in 1..Len(last.proj) :
            LET p == last.proj[i]
            IN \A h \in 1..Len(last.hooked[p.mod]) :
                  LET old == last.before[last.hooked[p.mod][h]]
                      new == cache[last.hooked[p.mod][h]]
                      stored == IF ~Has(old, p.mod) \/ Len(p.output) > dims.n_text_ctx
                                THEN p.output
                                ELSE Get(old, p.mod) \o p.output
                  IN /\ Has(new, p.mod)
                     /\ Get(new, p.mod) = stored
                     /\ p.ret = stored

\* C4 witness: one call in which a hook appended to an entry and a hook replaced an
\* entry by an output longer than n_text_ctx
C4_Witness ==
    /\ last.op = "decoder"
    /\ \E i \in 1..Len(last.proj) :
          /\ last.hooked[last.proj[i].mod] # <<>>
          /\ Len(last.proj[i].ret) > Len(last.proj[i].output)
    /\ \E i \in 1..Len(last.proj) :
          /\ last.hooked[last.proj[i].mod] # <<>>
          /\ Has(last.before[1], last.proj[i].mod)
          /\ Len(last.proj[i].output) > dims.n_text_ctx

\* C5: in a session whose every decoder call passes the session's cache, the
\* cross-attention key and value projections of each block are invoked once, in the
\* first call; later calls do not invoke them, leave their cache entries unchanged
\* with n_audio_ctx rows, and attend over the cached rows verbatim.
C5_CrossComputedOnce ==
    (last.op = "decoder" /\ last.kv = 1 /\ hist[1].allkv) =>
        \A m \in CrossMods :
            IF last.before[1] = <<>>
            THEN last.status = "ok" =>
                    /\ Cardinality(Invocations(m)) = 1
                    /\ Get(cache[1], m) = Linear(m, AudioFeatures(dims))
            ELSE /\ Invocations(m) = {}
                 /\ Has(last.before[1], m)
                 /\ Get(cache[1], m) = Get(last.before[1], m)
                 /\ Get(cache[1], m) = Linear(m, AudioFeatures(dims))
                 /\ Len(Get(cache[1], m)) = dims.n_audio_ctx
                 /\ \A i \in 1..Len(last.logits) :
                       last.logits[i].a =
                           [j \in 1..dims.n_audio_ctx |->
                               [k |-> Get(last.before[1], Mod(dims.n_text_layer, "cross_attn", "key"))[j],
                                v |-> Get(last.before[1], Mod(dims.n_text_layer, "cross_attn", "value"))[j]]]

\* C5 witness: a later call of such a session completed
C5_Witness ==
    /\ last.op = "decoder"
    /\ last.kv = 1
    /\ hist[1].allkv
    /\ last.before[1] # <<>>
    /\ last.status = "ok"

\* C6: a decoder call with k >= 1 new tokens on a cache holding m >= 1 positions,
\* m + k <= n_text_ctx, completes and returns k rows of logits, for positions
\* m .. m+k-1.
C6_AnyChunkAccepted ==
    (/\ last.op = "decoder"
     /\ last.kv = 1
     /\ hist[1].allkv
     /\ last.offset >= 1
     /\ last.offset + Len(last.toks) <= dims.n_text_ctx) =>
        /\ last.status = "ok"
        /\ Len(last.logits) = Len(last.toks)
        /\ \A i \in 1..Len(last.logits) : RowPos(last.logits[i]) = last.offset + i - 1

C8_CleanTeardown ==
    last.op = "decoder" =>
        /\ (1 \in last.created /\ last.handles[1] = {}) =>
              /\ cache[1] = last.before[1]
              /\ \A i \in 1..Len(last.proj) :
                    (\A o \in Sessions \ {1} : last.proj[i].mod \notin last.handles[o]) =>
                        last.proj[i].ret = last.proj[i].output
        /\ (2 \in last.created /\ hist[2].fresh) =>
              \A i \in 1..Len(cache[2]) :
                  cache[2][i].mod \in SelfMods =>
                      /\ Len(cache[2][i].t) <= Len(hist[2].toks)
                      /\ \A j \in 1..Len(cache[2][i].t) : cache[2][i].t[j].m = cache[2][i].mod

\* C8 witness: a forward pass ran after session 1, whose cache was filled, had
\* removed all its handles
C8_Witness ==
    /\ last.op = "decoder"
    /\ 1 \in last.created
    /\ last.handles[1] = {}
    /\ cache[1] # <<>>
    /\ last.status = "ok"

C10_SessionsIsolated ==
    (last.op = "decoder" /\ last.kv \in Sessions) =>
        \A o \in Sessions \ {last.kv} : cache[o] = last.before[o]

====
